---- MODULE Spec2Model ----
(***************************************************************************)
(* Model of the portable spreadsheet: the Cell class                      *)
(* (src/portable_spreadsheet/cell.py) and the Spreadsheet grid            *)
(* (src/portable_spreadsheet/spreadsheet.py).                              *)
(*                                                                         *)
(* Python objects live in heaps: `heap` holds every Cell object ever       *)
(* created and still reachable by the caller or the grid (index = object   *)
(* identity), `ci_heap` holds the CellIndices objects.  The grid's         *)
(* `_sheet` is a list of lists of Cell identities.                         *)
(*                                                                         *)
(* Numbers are exact rationals <<n, d>> (d > 0, lowest terms); the         *)
(* reductions of numpy round every partial result of whole numbers to a   *)
(* significand of SignificandBits bits, as a double does to 53.  Python's  *)
(* None is the empty tuple <<>>.  A fragment (word) is the sequence of     *)
(* tokens the word constructor joins.                                      *)
(*                                                                         *)
(* `slices` holds the CellSlice objects the caller has taken.              *)
(*                                                                         *)
(* `last` records the last call: its name, its arguments, how it ended     *)
(* and the object it returned.  A call that raised before changing         *)
(* anything ends the behaviour (the errors are programming errors, not     *)
(* caught): what the caller could do next is what it could do before the   *)
(* call.  `calls` counts the calls that changed the grid.                  *)
(***************************************************************************)
EXTENDS Integers, Sequences, FiniteSets, TLC

VARIABLES heap, ci_heap, sheet, cell_indices, slices, last, calls

vars == <<heap, ci_heap, sheet, cell_indices, slices, last, calls>>

(* ---------------------------- bounds ----------------------------------- *)
MaxObjs == 5        \* Cell objects in a state that still takes a call
MaxCalls == 2       \* calls that change the grid before the last call
MaxAbs == 30        \* largest numerator / denominator of a value
MaxExp == 3         \* largest exponent handed to power
SignificandBits == 7    \* bits of a float's significand (a double has 53)
MaxSlices == 1      \* CellSlice objects the caller takes

(* ---------------------------- None / numbers --------------------------- *)
None == <<>>

Abs(n) == IF n < 0 THEN -n ELSE n

RECURSIVE Gcd(_, _)
Gcd(a, b) == IF b = 0 THEN a ELSE Gcd(b, a % b)

\* the rational n/d in lowest terms with a positive denominator
Norm(n, d) ==
    LET s == IF d < 0 THEN -1 ELSE 1
        g == Gcd(Abs(n), Abs(d))
    IN  <<(s * n) \div g, (s * d) \div g>>

Num(n) == <<n, 1>>

RAdd(p, q) == Norm(p[1] * q[2] + q[1] * p[2], p[2] * q[2])
RSub(p, q) == Norm(p[1] * q[2] - q[1] * p[2], p[2] * q[2])
RMul(p, q) == Norm(p[1] * q[1], p[2] * q[2])
RDiv(p, q) == Norm(p[1] * q[2], p[2] * q[1])
RLess(p, q) == p[1] * q[2] < q[1] * p[2]

RECURSIVE IPow(_, _)
IPow(b, e) == IF e = 0 THEN 1 ELSE b * IPow(b, e - 1)

\* p ** q for an integral exponent q
RPow(p, q) ==
    IF q[1] >= 0 THEN Norm(IPow(p[1], q[1]), IPow(p[2], q[1]))
    ELSE Norm(IPow(p[2], -q[1]), IPow(p[1], -q[1]))

RECURSIVE Quantum(_)
\* the distance between the floats next to the natural number n
Quantum(n) ==
    IF n < IPow(2, SignificandBits) THEN 1 ELSE 2 * Quantum(n \div 2)

\* the float nearest to the natural number n, ties to the even significand
RoundNat(n) ==
    LET q == Quantum(n)
        base == n - (n % q)
    IN  IF 2 * (n % q) < q THEN base
        ELSE IF 2 * (n % q) > q THEN base + q
        ELSE IF (base \div q) % 2 = 0 THEN base
        ELSE base + q

\* the float that a float operation returns for the exact result v: whole
\* numbers are rounded to the significand, fractions are kept exact
Float(v) ==
    IF v = None THEN v
    ELSE IF v[2] # 1 THEN v
    ELSE IF v[1] < 0 THEN <<-RoundNat(-v[1]), 1>>
    ELSE <<RoundNat(v[1]), 1>>

\* Python's int(): truncation toward zero
PyInt(p) == IF p[1] >= 0 THEN p[1] \div p[2] ELSE -((-p[1]) \div p[2])

InRange(v) == IF v = None THEN TRUE ELSE Abs(v[1]) <= MaxAbs /\ v[2] <= MaxAbs

\* abs(x - int(x)) > 0.000_001: the index is rejected as not an integer
Tolerance == 1000000

NotInteger(p) == Abs(p[1] - PyInt(p) * p[2]) * Tolerance > p[2]

\* Python list indexing: the 1-based position of index i in a list of
\* length n (negative indices count from the end), 0 for IndexError
PyIndex(n, i) ==
    IF 0 <= i /\ i < n THEN i + 1
    ELSE IF -n <= i /\ i < 0 THEN n + i + 1
    ELSE 0

(* ---------------------------- fragments -------------------------------- *)
\* one token of a fragment: its kind and up to two arguments, each a tuple
\* (a row or column, a number, or None)
Tok(t, x, y) == [t |-> t, x |-> x, y |-> y]

\* Cell.anchored
anchored(c) == c.row # None

\* the coordinate label of a cell
WC_reference(c) == <<Tok("ref", c.row, c.column)>>

\* the literal of the cell's value
WC_constant(c) == <<Tok("const", c.value, None)>>

\* the fragment synthesised when the constructor is given none
WC_init_from_new_cell(c) ==
    IF c.value # None THEN WC_constant(c)
    ELSE IF anchored(c) THEN WC_reference(c)
    ELSE WC_constant(c)

wordOwnExpression(c) ==
    IF c.cell_type = "computational" THEN c.words
    ELSE IF anchored(c) THEN WC_reference(c)
    ELSE WC_constant(c)

\* Cell.word: the fragment the cell exposes to other expressions
word(c) ==
    IF anchored(c) THEN WC_reference(c)
    ELSE IF c.cell_type = "computational" THEN c.words
    ELSE WC_constant(c)

\* the fragment of a binary operation: the operands' words around the
\* operator, with no brackets added
WC_binary(op, a, b) == word(a) \o <<Tok(op, None, None)>> \o word(b)

WC_brackets(c) ==
    <<Tok("(", None, None)>> \o word(c) \o <<Tok(")", None, None)>>

\* the fragment of the logarithm function call around the operand's word
WC_logarithm(c) ==
    <<Tok("log", None, None), Tok("(", None, None)>> \o word(c)
        \o <<Tok(")", None, None)>>

\* the fragment of an aggregation over the range start .. end
WC_aggregation(start, end, method) ==
    <<Tok(method, None, None), Tok("ref", <<start[1]>>, <<start[2]>>),
      Tok("ref", <<end[1]>>, <<end[2]>>)>>

(* ---------------------------- Cell ------------------------------------- *)
CellInitRaisesNever(row, column) == FALSE

\* Cell.__init__ raises ValueError: exactly one of row, column is None
CellInitRaises(row, column) ==
    \/ (row # None /\ column = None)
    \/ (row = None /\ column # None)

\* Cell.__init__; words = None asks for the synthesised fragment
CellInit(row, column, value, ci, cell_type, words) ==
    LET c == [row |-> row, column |-> column, value |-> value,
              cell_type |-> cell_type, cell_indices |-> ci, words |-> words]
    IN  IF words # None THEN c
        ELSE [c EXCEPT !.words = WC_init_from_new_cell(c)]

\* the coordinates setter
SetCoordinates(c, x, y) == [c EXCEPT !.row = <<x>>, !.column = <<y>>]

Ops == {"add", "subtract", "multiply", "divide", "power"}

\* the native arithmetic raises instead of giving a number
ArithError(op, p, q) ==
    IF p = None \/ q = None THEN "TypeError"
    ELSE IF op = "divide" /\ q[1] = 0 THEN "ZeroDivisionError"
    ELSE IF op = "power" /\ p[1] = 0 /\ q[1] < 0 THEN "ZeroDivisionError"
    ELSE "ok"

ArithValue(op, p, q) ==
    CASE op = "add" -> RAdd(p, q)
      [] op = "subtract" -> RSub(p, q)
      [] op = "multiply" -> RMul(p, q)
      [] op = "divide" -> RDiv(p, q)
      [] op = "power" -> RPow(p, q)

ArithResultInPlace(op, a, b) ==
    CellInit(a.row, a.column, ArithValue(op, a.value, b.value),
             b.cell_indices, "computational", WC_binary(op, a, b))

\* Cell.add / subtract / multiply / divide / power
ArithResult(op, a, b) ==
    CellInit(None, None, ArithValue(op, a.value, b.value),
             b.cell_indices, "computational", WC_binary(op, a, b))

ReferenceResultCopy(other) ==
    CellInit(None, None, other.value, other.cell_indices,
             "computational", wordOwnExpression(other))

ReferenceResultAnchored(other) ==
    CellInit(other.row, other.column, other.value, other.cell_indices,
             "computational", WC_reference(other))

\* Cell.reference, for an anchored operand
ReferenceResult(other) ==
    CellInit(None, None, other.value, other.cell_indices,
             "computational", WC_reference(other))

BracketsResultBare(other) ==
    CellInit(None, None, other.value, other.cell_indices,
             "computational", word(other))

\* Cell.brackets
BracketsResult(other) ==
    CellInit(None, None, other.value, other.cell_indices,
             "computational", WC_brackets(other))

\* how np.log / np.exp end on the value: None is not a number; the model
\* follows the values whose image is a rational, log(1) = 0 and exp(0) = 1
WrapperError(v) == IF v = None THEN "TypeError" ELSE "ok"

LogValue(v) == IF v = Num(1) THEN Num(0) ELSE None

ExpValue(v) == IF v = Num(0) THEN Num(1) ELSE None

\* Cell.logarithm
LogarithmResult(other) ==
    CellInit(None, None, LogValue(other.value), other.cell_indices,
             "computational", WC_logarithm(other))

\* Cell.exponential: the words are built by WordConstructor.logarithm
ExponentialResult(other) ==
    CellInit(None, None, ExpValue(other.value), other.cell_indices,
             "computational", WC_logarithm(other))

(* ---------------------------- aggregation ------------------------------ *)
Methods == {"sum", "product", "mean", "minimum", "maximum"}

RECURSIVE Reduce(_, _)
\* the numpy reduction of a non-empty list of numbers: the members are
\* taken from the first to the last, every partial result is a float
Reduce(method, vs) ==
    IF Len(vs) = 1 THEN vs[1]
    ELSE LET h == Reduce(method, SubSeq(vs, 1, Len(vs) - 1))
             t == vs[Len(vs)]
         IN  CASE method \in {"sum", "mean"} -> Float(RAdd(h, t))
               [] method = "product" -> Float(RMul(h, t))
               [] method = "minimum" -> IF RLess(t, h) THEN t ELSE h
               [] method = "maximum" -> IF RLess(h, t) THEN t ELSE h

\* how Cell._aggregate_fun ends on a list of values: numpy's minimum and
\* maximum have no identity and raise on an empty list, the other
\* reductions return and subset[0] then raises; None does not add
AggregateError(method, vs) ==
    IF Len(vs) = 0
    THEN IF method \in {"minimum", "maximum"} THEN "ValueError"
         ELSE "IndexError"
    ELSE IF \E i \in 1..Len(vs) : vs[i] = None THEN
         IF Len(vs) = 1 /\ method # "mean" THEN "ok" ELSE "TypeError"
    ELSE "ok"

AggregateValueFirst(method, vs) == vs[1]

AggregateValue(method, vs) ==
    IF vs[1] = None THEN None
    ELSE IF method = "mean" THEN RDiv(Reduce(method, vs), Num(Len(vs)))
    ELSE Reduce(method, vs)

\* the cell Cell._aggregate_fun returns for a subset of cells
AggregateResult(method, start, end, subset) ==
    CellInit(None, None,
             AggregateValue(method, [i \in 1..Len(subset) |-> subset[i].value]),
             subset[1].cell_indices, "computational",
             WC_aggregation(start, end, method))

(* ---------------------------- inputs ----------------------------------- *)
\* numbers handed to set
Numbers == {Num(2), Num(3)}

\* coordinates handed to get / set / delete: -1, 0, 1 and 1/2
Indices == {Num(-1), Num(0), Num(1), <<1, 2>>}

\* the shapes a grid is constructed with
InitShapes == {<<1, 1>>, <<1, 2>>, <<2, 1>>}

\* rows / columns an expand call adds
Growth == {0, 1}

\* cells the caller has built with the grid's CellIndices (object 2) before
\* the first call: free and anchored Value cells, and the free sum of two
InputCells ==
    {CellInit(None, None, v, 2, "value_only", None) :
        v \in {None, Num(0), Num(2), Num(3)}}
    \cup {CellInit(<<1>>, <<0>>, v, 2, "value_only", None) :
        v \in {None, Num(3)}}
    \cup {ArithResult("add", CellInit(None, None, Num(2), 2, "value_only", None),
                      CellInit(<<1>>, <<0>>, Num(3), 2, "value_only", None))}

\* operands of the wrappers: free and anchored Value cells holding 0, 1, 2
ExprCells ==
    {CellInit(None, None, v, 2, "value_only", None) :
        v \in {Num(0), Num(1), Num(2)}}
    \cup {CellInit(<<1>>, <<0>>, v, 2, "value_only", None) :
        v \in {Num(0), Num(1)}}

\* numbers summed: 2, 89 and a float so large that adding 2 to it is rounded
SumValues == {Num(2), Num(89), Num(IPow(2, SignificandBits + 1))}

\* the lists of cells handed to Cell.sum: every non-empty list of different
\* cells of a row of three
SumOrders ==
    {ids \in UNION {[1..n -> 1..3] : n \in 1..3} :
        \A i \in 1..Len(ids), j \in 1..Len(ids) : ids[i] = ids[j] => i = j}

\* the cell the caller holds beside a grid: a free Value cell, an anchored
\* one, a free Computational one
CallerCells == {c \in InputCells : c.value \in {Num(2), Num(3), Num(5)}}

(* ---------------------------- state ------------------------------------ *)
\* what the last call was, what it was given and how it ended
L(op, res, ret, a, b, x, y, val) ==
    [op |-> op, res |-> res, ret |-> ret, a |-> a, b |-> b,
     x |-> x, y |-> y, val |-> val]

Cells == 1..Len(heap)

\* the subsets handed to an aggregation: lists of up to two cells
Subsets == UNION {[1..n -> Cells] : n \in 0..2}

\* Spreadsheet.shape: the shape of the grid's current CellIndices
shape == ci_heap[cell_indices]

\* the caller makes another call: the last one changed the state (it
\* returned, or raised after it had changed the grid), within the bounds
Running ==
    /\ last.res \in {"ok", "AttributeError"}
    /\ last.op # "get"
    /\ calls < MaxCalls
    /\ Len(heap) < MaxObjs

\* Spreadsheet._initialise_array: one empty anchored cell per coordinate,
\* in row-major order; the cell of (r, c) is object r * cols + c + 1
InitialiseArray(sh) ==
    [r \in 1..sh[1] |-> [c \in 1..sh[2] |-> (r - 1) * sh[2] + c]]

InitialiseHeap(sh, ci) ==
    [k \in 1..(sh[1] * sh[2]) |->
        CellInit(<<(k - 1) \div sh[2]>>, <<(k - 1) % sh[2]>>, None, ci,
                 "value_only", None)]

\* Spreadsheet.__init__: the caller's CellIndices (object 1) is deep-copied
\* (object 2) and the array is initialised with the copy; `held` are the
\* cells the caller holds beside the grid
Construct(sh, held) ==
    /\ ci_heap = <<sh, sh>>
    /\ cell_indices = 2
    /\ heap = InitialiseHeap(sh, 2) \o held
    /\ sheet = InitialiseArray(sh)
    /\ slices = <<>>
    /\ last = L("init", "ok", 0, 0, 0, Num(0), Num(0), None)
    /\ calls = 0

\* a grid and one cell of the caller's
Init == \E sh \in InitShapes, f \in CallerCells : Construct(sh, <<f>>)

\* a grid and one operand of the wrappers
InitExpr == \E sh \in InitShapes, f \in ExprCells : Construct(sh, <<f>>)

\* a 1 x 3 grid in which a number was set at every coordinate
InitSum ==
    \E v \in [1..3 -> SumValues] :
        /\ ci_heap = <<<<1, 3>>, <<1, 3>>>>
        /\ cell_indices = 2
        /\ heap = [c \in 1..3 |-> CellInit(<<0>>, <<c - 1>>, v[c], 2,
                                           "value_only", None)]
        /\ sheet = <<<<1, 2, 3>>>>
        /\ slices = <<>>
        /\ last = L("init", "ok", 0, 0, 0, Num(0), Num(0), None)
        /\ calls = 0

\* the shapes of the grids that are sliced
SliceShapes == {<<1, 2>>, <<2, 1>>, <<2, 2>>}

\* the ranges handed to the slice, as start and exclusive end: the first
\* row or column, the first two, and one that leaves the grid
Ranges == {<<0, 1>>, <<0, 2>>, <<1, 3>>}

\* coordinates of the grid handed to set after a slice was taken
SliceIndices == {Num(0), Num(1)}

\* a grid in which a number was set at every coordinate
InitSlice ==
    \E sh \in SliceShapes : \E v \in [1..(sh[1] * sh[2]) -> Numbers] :
        /\ ci_heap = <<sh, sh>>
        /\ cell_indices = 2
        /\ heap = [k \in 1..(sh[1] * sh[2]) |->
                    CellInit(<<(k - 1) \div sh[2]>>, <<(k - 1) % sh[2]>>,
                             v[k], 2, "value_only", None)]
        /\ sheet = InitialiseArray(sh)
        /\ slices = <<>>
        /\ last = L("init", "ok", 0, 0, 0, Num(0), Num(0), None)
        /\ calls = 0

\* a 1 x 2 grid and two operands
InitCell == \E a \in InputCells, b \in InputCells : Construct(<<1, 2>>, <<a, b>>)

(* ---------------------------- Cell operations -------------------------- *)
\* Cell(row, column, value, cell_indices=ci) called by the caller
NewCell(row, column, value, ci) ==
    /\ Running
    /\ IF CellInitRaises(row, column)
       THEN /\ last' = L("new", "ValueError", 0, 0, 0, row, column, value)
            /\ UNCHANGED heap
       ELSE /\ heap' = Append(heap, CellInit(row, column, value, ci,
                                             "value_only", None))
            /\ last' = L("new", "ok", Len(heap) + 1, 0, 0, row, column, value)
    /\ UNCHANGED <<ci_heap, sheet, cell_indices, slices, calls>>

\* a.add(b), a.subtract(b), ... for two cells the caller holds
Arith(op, a, b) ==
    LET err == ArithError(op, heap[a].value, heap[b].value)
    IN  /\ Running
        /\ IF err # "ok"
           THEN /\ last' = L(op, err, 0, a, b, Num(0), Num(0), None)
                /\ UNCHANGED heap
           ELSE /\ op = "power" =>
                      heap[b].value[2] = 1 /\ Abs(heap[b].value[1]) <= MaxExp
                /\ InRange(ArithResult(op, heap[a], heap[b]).value)
                /\ heap' = Append(heap, ArithResult(op, heap[a], heap[b]))
                /\ last' = L(op, "ok", Len(heap) + 1, a, b,
                             Num(0), Num(0), None)
        /\ UNCHANGED <<ci_heap, sheet, cell_indices, slices, calls>>

\* Cell.reference(other) called by the caller
Reference(other) ==
    /\ Running
    /\ IF ~anchored(heap[other])
       THEN /\ last' = L("reference", "ValueError", 0, other, 0,
                         Num(0), Num(0), None)
            /\ UNCHANGED heap
       ELSE /\ heap' = Append(heap, ReferenceResult(heap[other]))
            /\ last' = L("reference", "ok", Len(heap) + 1, other, 0,
                         Num(0), Num(0), None)
    /\ UNCHANGED <<ci_heap, sheet, cell_indices, slices, calls>>

\* Cell.brackets(other) called by the caller
Brackets(other) ==
    /\ Running
    /\ heap' = Append(heap, BracketsResult(heap[other]))
    /\ last' = L("brackets", "ok", Len(heap) + 1, other, 0,
                 Num(0), Num(0), None)
    /\ UNCHANGED <<ci_heap, sheet, cell_indices, slices, calls>>

\* Cell.logarithm(other) called by the caller
Logarithm(other) ==
    /\ Running
    /\ IF WrapperError(heap[other].value) # "ok"
       THEN /\ last' = L("logarithm", WrapperError(heap[other].value), 0,
                         other, 0, Num(0), Num(0), None)
            /\ UNCHANGED heap
       ELSE /\ LogValue(heap[other].value) # None
            /\ heap' = Append(heap, LogarithmResult(heap[other]))
            /\ last' = L("logarithm", "ok", Len(heap) + 1, other, 0,
                         Num(0), Num(0), None)
    /\ UNCHANGED <<ci_heap, sheet, cell_indices, slices, calls>>

\* Cell.exponential(other) called by the caller
Exponential(other) ==
    /\ Running
    /\ IF WrapperError(heap[other].value) # "ok"
       THEN /\ last' = L("exponential", WrapperError(heap[other].value), 0,
                         other, 0, Num(0), Num(0), None)
            /\ UNCHANGED heap
       ELSE /\ ExpValue(heap[other].value) # None
            /\ heap' = Append(heap, ExponentialResult(heap[other]))
            /\ last' = L("exponential", "ok", Len(heap) + 1, other, 0,
                         Num(0), Num(0), None)
    /\ UNCHANGED <<ci_heap, sheet, cell_indices, slices, calls>>

AggregateHeapDefault(method, start, end, ids) ==
    LET subset == [i \in 1..Len(ids) |-> heap[ids[i]]]
    IN  IF Len(ids) = 0
        THEN Append(heap, CellInit(None, None, None, cell_indices,
                                   "computational",
                                   WC_aggregation(start, end, method)))
        ELSE IF AggregateError(method,
                               [i \in 1..Len(ids) |-> subset[i].value]) # "ok"
        THEN heap
        ELSE Append(heap, AggregateResult(method, start, end, subset))

\* the Cell objects after Cell._aggregate_fun on the cells `ids`: the new
\* cell is built only when nothing raised
AggregateHeap(method, start, end, ids) ==
    LET subset == [i \in 1..Len(ids) |-> heap[ids[i]]]
    IN  IF AggregateError(method,
                          [i \in 1..Len(ids) |-> subset[i].value]) # "ok"
        THEN heap
        ELSE Append(heap, AggregateResult(method, start, end, subset))

\* Cell.sum / product / mean / min / max called by the caller
Aggregate(method, start, end, ids) ==
    LET subset == [i \in 1..Len(ids) |-> heap[ids[i]]]
        err == AggregateError(method, [i \in 1..Len(ids) |-> subset[i].value])
    IN  /\ Running
        /\ IF err # "ok"
           THEN last' = L(method, err, 0,
                          IF Len(ids) = 0 THEN 0 ELSE ids[1],
                          IF Len(ids) = 0 THEN 0 ELSE ids[Len(ids)],
                          Num(0), Num(0), None)
           ELSE /\ InRange(AggregateResult(method, start, end, subset).value)
                /\ last' = L(method, "ok", Len(heap) + 1,
                             ids[1], ids[Len(ids)], Num(0), Num(0), None)
        /\ heap' = AggregateHeap(method, start, end, ids)
        /\ UNCHANGED <<ci_heap, sheet, cell_indices, slices, calls>>

\* Cell.sum(start, end, subset) called by the caller on cells of the grid;
\* the call record keeps the range and the list
Sum(start, end, ids) ==
    LET vs == [i \in 1..Len(ids) |-> heap[ids[i]].value]
    IN  /\ Running
        /\ last' = IF AggregateError("sum", vs) # "ok"
                   THEN L("sum", AggregateError("sum", vs), 0,
                          ids[1], ids[Len(ids)], start, end, ids)
                   ELSE L("sum", "ok", Len(heap) + 1,
                          ids[1], ids[Len(ids)], start, end, ids)
        /\ heap' = AggregateHeap("sum", start, end, ids)
        /\ UNCHANGED <<ci_heap, sheet, cell_indices, slices, calls>>

(* ---------------------------- Spreadsheet ------------------------------ *)
\* the cell Spreadsheet._set_item builds for a Cell value: a reference to an
\* anchored cell; a deep copy of a free one (with its own copy, object ci,
\* of the CellIndices), anchored at (x, y)
SetValue(c, x, y, ci) ==
    IF anchored(c) THEN ReferenceResult(c)
    ELSE SetCoordinates([c EXCEPT !.cell_indices = ci], x, y)

SetHeapAnchorFirst(id, x, y) ==
    Append([heap EXCEPT ![id] = IF anchored(@) THEN @
                                ELSE SetCoordinates(@, x, y)],
           SetValue(heap[id], x, y, Len(ci_heap) + 1))

\* the Cell objects after Spreadsheet._set_item with the Cell value `id`:
\* the cell built for it is a new object, the value is left as it was
SetHeap(id, x, y) ==
    Append(heap, SetValue(heap[id], x, y, Len(ci_heap) + 1))

\* how Spreadsheet._set_item ends for the index (x, y): the check of the
\* index, then the list assignment _sheet[_x][_y]
SetError(x, y) ==
    IF NotInteger(x) \/ NotInteger(y) THEN "IndexError"
    ELSE IF x[2] # 1 \/ y[2] # 1 THEN "TypeError"
    ELSE IF PyIndex(Len(sheet), x[1]) = 0 THEN "IndexError"
    ELSE IF PyIndex(Len(sheet[PyIndex(Len(sheet), x[1])]), y[1]) = 0
    THEN "IndexError"
    ELSE "ok"

\* the array after _sheet[_x][_y] = id
Store(x, y, id) ==
    [sheet EXCEPT ![PyIndex(Len(sheet), x)]
                   [PyIndex(Len(sheet[PyIndex(Len(sheet), x)]), y)] = id]

\* Spreadsheet._set_item with a Cell value
SetCell(id, x, y) ==
    /\ Running
    /\ IF SetError(x, y) # "ok"
       THEN /\ last' = L("set", SetError(x, y), 0, id, 0, x, y, None)
            /\ UNCHANGED <<heap, ci_heap, sheet, calls>>
       ELSE /\ heap' = SetHeap(id, x[1], y[1])
            /\ ci_heap' = IF anchored(heap[id]) THEN ci_heap
                          ELSE Append(ci_heap, ci_heap[heap[id].cell_indices])
            /\ sheet' = Store(x[1], y[1], Len(heap) + 1)
            /\ last' = L("set", "ok", Len(heap) + 1, id, 0, x, y, None)
            /\ calls' = calls + 1
    /\ UNCHANGED <<cell_indices, slices>>

\* the cell Spreadsheet._set_item builds for a plain number
SetNumberValue(v, x, y, ci) ==
    CellInit(<<x>>, <<y>>, v, ci, "value_only", None)

\* Spreadsheet._set_item with a plain number
SetNumber(v, x, y) ==
    /\ Running
    /\ IF SetError(x, y) # "ok"
       THEN /\ last' = L("set", SetError(x, y), 0, 0, 0, x, y, v)
            /\ UNCHANGED <<heap, sheet, calls>>
       ELSE /\ heap' = Append(heap,
                              SetNumberValue(v, x[1], y[1], cell_indices))
            /\ sheet' = Store(x[1], y[1], Len(heap) + 1)
            /\ last' = L("set", "ok", Len(heap) + 1, 0, 0, x, y, v)
            /\ calls' = calls + 1
    /\ UNCHANGED <<ci_heap, cell_indices, slices>>

\* the cell Spreadsheet._get_item returns, 0 when it raises IndexError
GetSlot(x, y) ==
    IF NotInteger(x) \/ NotInteger(y) THEN 0
    ELSE LET r == PyIndex(Len(sheet), PyInt(x))
         IN  IF r = 0 THEN 0
             ELSE IF PyIndex(Len(sheet[r]), PyInt(y)) = 0 THEN 0
             ELSE sheet[r][PyIndex(Len(sheet[r]), PyInt(y))]

\* Spreadsheet._get_item
GetItem(x, y) ==
    /\ Running
    /\ last' = L("get", IF GetSlot(x, y) = 0 THEN "IndexError" ELSE "ok",
                 GetSlot(x, y), 0, 0, x, y, None)
    /\ UNCHANGED <<heap, ci_heap, sheet, cell_indices, slices, calls>>

GetSliceSubsetByColumn(xs, xe, ys, ye) ==
    LET nr == IF xe > xs THEN xe - xs ELSE 0
        nc == IF ye > ys THEN ye - ys ELSE 0
    IN  [k \in 1..(nr * nc) |->
            GetSlot(Num(xs + ((k - 1) % nr)), Num(ys + ((k - 1) \div nr)))]

\* the list that the loops of Spreadsheet._get_slice build for the rows
\* range(xs, xe) and the columns range(ys, ye): self.iloc[x, y] for every x
\* and, inside, every y; 0 stands for a get that raised
GetSliceSubset(xs, xe, ys, ye) ==
    LET nr == IF xe > xs THEN xe - xs ELSE 0
        nc == IF ye > ys THEN ye - ys ELSE 0
    IN  [k \in 1..(nr * nc) |->
            GetSlot(Num(xs + ((k - 1) \div nc)), Num(ys + ((k - 1) % nc)))]

\* the CellSlice object: inclusive start and end and the list of members
CellSlice(start, end, cell_subset) ==
    [start |-> start, end |-> end, cell_subset |-> cell_subset]

\* Spreadsheet._get_slice((xs, xe, 1, ys, ye, 1))
GetSlice(xs, xe, ys, ye) ==
    LET subset == GetSliceSubset(xs, xe, ys, ye)
    IN  /\ Running
        /\ Len(slices) < MaxSlices
        /\ IF \E k \in 1..Len(subset) : subset[k] = 0
           THEN /\ last' = L("slice", "IndexError", 0, 0, 0,
                             <<xs, xe>>, <<ys, ye>>, None)
                /\ UNCHANGED slices
           ELSE /\ slices' = Append(slices,
                                    CellSlice(<<xs, ys>>, <<xe - 1, ye - 1>>,
                                              subset))
                /\ last' = L("slice", "ok", Len(slices) + 1, 0, 0,
                             <<xs, xe>>, <<ys, ye>>, None)
        /\ UNCHANGED <<heap, ci_heap, sheet, cell_indices, calls>>

\* CellSlice.sum() on the slice k: Cell.sum over the members it holds
SliceSum(k) ==
    LET ids == slices[k].cell_subset
        vs == [i \in 1..Len(ids) |-> heap[ids[i]].value]
    IN  /\ Running
        /\ last' = IF AggregateError("sum", vs) # "ok"
                   THEN L("slice_sum", AggregateError("sum", vs), 0, k, 0,
                          slices[k].start, slices[k].end, ids)
                   ELSE L("slice_sum", "ok", Len(heap) + 1, k, 0,
                          slices[k].start, slices[k].end, ids)
        /\ heap' = AggregateHeap("sum", slices[k].start, slices[k].end, ids)
        /\ UNCHANGED <<ci_heap, sheet, cell_indices, slices, calls>>

\* CellIndices.expand_size: the shape of the new, larger CellIndices
expand_size(sh, n, m) == <<sh[1] + n, sh[2] + m>>

\* the array after the loop of Spreadsheet.expand_using_cell_indices: whole
\* new rows are appended, old rows get the missing columns; the new cells
\* are the objects base + 1, base + 2, ... in the order of their creation
ExpandSheet(sh, old, new, base) ==
    [r \in 1..new[1] |->
        IF r > old[1]
        THEN [c \in 1..new[2] |->
                 base + old[1] * (new[2] - old[2])
                      + (r - old[1] - 1) * new[2] + c]
        ELSE sh[r] \o [c \in 1..(new[2] - old[2]) |->
                          base + (r - 1) * (new[2] - old[2]) + c]]

\* the identities held by an array
InSheet(sh) == UNION {{sh[r][c] : c \in 1..Len(sh[r])} : r \in 1..Len(sh)}

ExpandCellReset(c, ci) ==
    CellInit(c.row, c.column, None, ci, "value_only", None)

\* a cell of the array after the refresh that ends the loop body
ExpandCell(c, ci) == [c EXCEPT !.cell_indices = ci]

\* the Cell objects after Spreadsheet.expand_using_cell_indices: k new
\* cells built by Cell(cell_indices=ci), and every cell of the array points
\* at the new CellIndices, object ci
ExpandHeap(hp, sh, k, ci) ==
    [i \in 1..(Len(hp) + k) |->
        IF i > Len(hp) THEN CellInit(None, None, None, ci, "value_only", None)
        ELSE IF i \in InSheet(sh) THEN ExpandCell(hp[i], ci)
        ELSE hp[i]]

\* Spreadsheet.expand(n, m): expand_using_cell_indices on the CellIndices
\* that expand_size returns, of which the grid keeps a deep copy
Expand(n, m) ==
    LET old == shape
        new == expand_size(shape, n, m)
        k == new[1] * new[2] - old[1] * old[2]
    IN  /\ Running
        /\ ci_heap' = Append(ci_heap, new)
        /\ cell_indices' = Len(ci_heap) + 1
        /\ sheet' = ExpandSheet(sheet, old, new, Len(heap))
        /\ heap' = ExpandHeap(heap, sheet, k, Len(ci_heap) + 1)
        /\ last' = L("expand", "ok", 0, 0, 0, Num(n), Num(m), None)
        /\ calls' = calls + 1
        /\ UNCHANGED slices

\* Spreadsheet._delete_single_cell((x, y)): the slot is set to a new empty
\* cell anchored at (x, y), which _set_item wraps in a reference; the scan
\* of the other cells then calls Cell.update_after_cell_delete, which Cell
\* does not define
DeleteSingleCell(x, y) ==
    /\ Running
    /\ IF SetError(x, y) # "ok"
       THEN /\ last' = L("delete", SetError(x, y), 0, 0, 0, x, y, None)
            /\ UNCHANGED <<heap, sheet, calls>>
       ELSE /\ heap' = Append(heap,
                   SetValue(CellInit(<<x[1]>>, <<y[1]>>, None, cell_indices,
                                     "value_only", None),
                            x[1], y[1], Len(ci_heap) + 1))
            /\ sheet' = Store(x[1], y[1], Len(heap) + 1)
            /\ last' = L("delete",
                         IF \E row \in 0..(shape[1] - 1),
                               col \in 0..(shape[2] - 1) :
                                <<row, col>> # <<x[1], y[1]>>
                         THEN "AttributeError" ELSE "ok",
                         Len(heap) + 1, 0, 0, x, y, None)
            /\ calls' = calls + 1
    /\ UNCHANGED <<ci_heap, cell_indices, slices>>

(* ---------------------------- rows and columns ------------------------- *)
\* self.index.index(label) / self.columns.index(label): a label is written
\* as the position it names; a label that names no position is not found
LabelFound(label, n) == 0 <= label[1] /\ label[1] < n

DeleteRowErrorLabelFirst(row_index, row_label) ==
    IF row_label # None
    THEN IF LabelFound(row_label, shape[1]) THEN "TypeError"
         ELSE "ValueError"
    ELSE IF row_index = None THEN "ok"
    ELSE IF ~(0 <= row_index[1] /\ row_index[1] < shape[1])
    THEN "IndexError"
    ELSE "TypeError"

\* how Spreadsheet.delete_row ends: both selectors, a label that is not
\* found, an index out of bounds; with a row to delete, the loop header
\* `for col_idx in self.shape[1]` iterates an int
DeleteRowError(row_index, row_label) ==
    IF row_index # None /\ row_label # None THEN "AttributeError"
    ELSE IF row_label # None
    THEN IF LabelFound(row_label, shape[1]) THEN "TypeError"
         ELSE "ValueError"
    ELSE IF row_index = None THEN "ok"
    ELSE IF ~(0 <= row_index[1] /\ row_index[1] < shape[1])
    THEN "IndexError"
    ELSE "TypeError"

\* how insert_row_before / insert_column_before end
InsertBeforeError(reference_index, reference_label) ==
    IF reference_index # None /\ reference_label # None THEN "IndexError"
    ELSE "ok"

\* how insert_row_after / insert_column_after end over an axis of n
\* labels: both selectors, a label that is not found, reference_index - 1
\* with no reference at all
InsertAfterError(reference_index, reference_label, n) ==
    IF reference_index # None /\ reference_label # None THEN "IndexError"
    ELSE IF reference_label # None
    THEN IF LabelFound(reference_label, n) THEN "ok" ELSE "ValueError"
    ELSE IF reference_index = None THEN "TypeError"
    ELSE "ok"

\* a call on rows or columns: none of them gets as far as changing the grid
RowCall(op, res, index, label) ==
    /\ Running
    /\ last' = L(op, res, 0, 0, 0, index, label, None)
    /\ UNCHANGED <<heap, ci_heap, sheet, cell_indices, slices, calls>>

\* Spreadsheet.delete_row(row_index=..., row_label=...)
DeleteRow(row_index, row_label) ==
    RowCall("delete_row", DeleteRowError(row_index, row_label),
            row_index, row_label)

\* Spreadsheet.insert_row_before(reference_index=..., reference_label=...)
InsertRowBefore(reference_index, reference_label) ==
    RowCall("insert_row_before",
            InsertBeforeError(reference_index, reference_label),
            reference_index, reference_label)

\* Spreadsheet.insert_row_after(reference_index=..., reference_label=...)
InsertRowAfter(reference_index, reference_label) ==
    RowCall("insert_row_after",
            InsertAfterError(reference_index, reference_label, shape[1]),
            reference_index, reference_label)

\* Spreadsheet.insert_column_before(reference_index=..., reference_label=...)
InsertColumnBefore(reference_index, reference_label) ==
    RowCall("insert_column_before",
            InsertBeforeError(reference_index, reference_label),
            reference_index, reference_label)

\* Spreadsheet.insert_column_after(reference_index=..., reference_label=...)
InsertColumnAfter(reference_index, reference_label) ==
    RowCall("insert_column_after",
            InsertAfterError(reference_index, reference_label, shape[2]),
            reference_index, reference_label)

\* the index selectors handed to these calls: none, -1, 0, 1, 2
IndexSelectors == {None, <<-1>>, <<0>>, <<1>>, <<2>>}

\* the label selectors: none, the label of position 0, a label not there
LabelSelectors == {None, <<0>>, <<5>>}

RowOps == {"delete_row", "insert_row_before", "insert_row_after",
           "insert_column_before", "insert_column_after"}

(* ---------------------------- specifications --------------------------- *)
\* the grid: calls of the caller on a grid and the cells it holds
Next ==
    \/ \E id \in Cells, x \in Indices, y \in Indices : SetCell(id, x, y)
    \/ \E v \in Numbers, x \in Indices, y \in Indices : SetNumber(v, x, y)
    \/ \E x \in Indices, y \in Indices : GetItem(x, y)
    \/ \E n \in Growth, m \in Growth : Expand(n, m)
    \/ \E x \in Indices, y \in Indices : DeleteSingleCell(x, y)

Spec == Init /\ [][Next]_vars

\* the cells: the operations of Cell on two operands, and the grid's set
NextCell ==
    \/ \E row \in {None, <<1>>}, column \in {None, <<0>>},
          v \in {None, Num(2)} : NewCell(row, column, v, cell_indices)
    \/ \E op \in Ops, a \in Cells, b \in Cells : Arith(op, a, b)
    \/ \E other \in Cells : Reference(other)
    \/ \E other \in Cells : Brackets(other)
    \/ \E method \in Methods, ids \in Subsets :
            Aggregate(method, <<0, 0>>, <<0, 1>>, ids)
    \/ \E id \in Cells : SetCell(id, Num(0), Num(0))
    \/ \E v \in Numbers : SetNumber(v, Num(0), Num(0))

SpecCell == InitCell /\ [][NextCell]_vars

\* the wrappers: brackets, logarithm and exponential on the cells alive
NextExpr ==
    \/ \E other \in Cells : Brackets(other)
    \/ \E other \in Cells : Logarithm(other)
    \/ \E other \in Cells : Exponential(other)

SpecExpr == InitExpr /\ [][NextExpr]_vars

\* the sum: Cell.sum over the cells of a row, in every order
NextSum == \E ids \in SumOrders : Sum(<<0, 0>>, <<0, 2>>, ids)

SpecSum == InitSum /\ [][NextSum]_vars

\* the slices: taking a slice, setting numbers, summing a slice
NextSlice ==
    \/ \E xr \in Ranges, yr \in Ranges :
            GetSlice(xr[1], xr[2], yr[1], yr[2])
    \/ \E v \in Numbers, x \in SliceIndices, y \in SliceIndices :
            SetNumber(v, x, y)
    \/ \E k \in 1..Len(slices) : SliceSum(k)

SpecSlice == InitSlice /\ [][NextSlice]_vars

\* rows and columns: delete_row and the inserts on a grid that is being set
NextRows ==
    \/ \E i \in IndexSelectors, l \in LabelSelectors : DeleteRow(i, l)
    \/ \E i \in IndexSelectors, l \in LabelSelectors : InsertRowBefore(i, l)
    \/ \E i \in IndexSelectors, l \in LabelSelectors : InsertRowAfter(i, l)
    \/ \E i \in IndexSelectors, l \in LabelSelectors :
            InsertColumnBefore(i, l)
    \/ \E i \in IndexSelectors, l \in LabelSelectors :
            InsertColumnAfter(i, l)
    \/ \E v \in Numbers, x \in SliceIndices, y \in SliceIndices :
            SetNumber(v, x, y)

SpecRows == Init /\ [][NextRows]_vars

(* ---------------------------- properties ------------------------------ *)
\* C1: every cell stored in the grid is anchored, and the coordinates of the
\* cell in slot (r, c) are (r, c)
C1_GridCellsAnchored ==
    \A r \in 1..Len(sheet) : \A c \in 1..Len(sheet[r]) :
        /\ heap[sheet[r][c]].row = <<r - 1>>
        /\ heap[sheet[r][c]].column = <<c - 1>>

\* C2: after any sequence of set and expand calls every cell of the grid
\* holds the identical CellIndices object, the grid's current one
C2_GridCellsShareIndices ==
    \A r \in 1..Len(sheet) : \A c \in 1..Len(sheet[r]) :
        heap[sheet[r][c]].cell_indices = cell_indices

\* C3: expand(n, m) leaves the value and the fragment of every cell that was
\* in the grid unchanged, the shape grows by n rows and m columns, and the
\* array has as many rows, and every row as many cells, as the new shape
C3_ExpandPreserves ==
    [][last'.op = "expand" =>
        /\ shape' = <<shape[1] + last'.x[1], shape[2] + last'.y[1]>>
        /\ Len(sheet') = shape'[1]
        /\ \A r \in 1..Len(sheet') : Len(sheet'[r]) = shape'[2]
        /\ \A r \in 1..Len(sheet) : \A c \in 1..Len(sheet[r]) :
            /\ heap'[sheet'[r][c]].value = heap[sheet[r][c]].value
            /\ heap'[sheet'[r][c]].words = heap[sheet[r][c]].words
            /\ word(heap'[sheet'[r][c]]) = word(heap[sheet[r][c]])]_vars

\* an expand by one row and one column of a grid that held a number
C3_Witness ==
    /\ last.op = "expand"
    /\ last.x = Num(1)
    /\ last.y = Num(1)
    /\ \E r \in 1..(Len(sheet) - 1) : \E c \in 1..(Len(sheet[r]) - 1) :
            heap[sheet[r][c]].value # None

\* C4: get at (r, c) fails with an index error when r or c is not an integer
\* or lies outside 0 <= r < rows, 0 <= c < columns, negative indices
\* included; otherwise it returns the cell in slot (r, c)
C4_GetChecksBounds ==
    last.op = "get" =>
        IF \/ last.x[2] # 1
           \/ last.y[2] # 1
           \/ last.x[1] < 0
           \/ last.x[1] >= shape[1]
           \/ last.y[1] < 0
           \/ last.y[1] >= shape[2]
        THEN last.res = "IndexError" /\ last.ret = 0
        ELSE /\ last.res = "ok"
             /\ last.ret = sheet[last.x[1] + 1][last.y[1] + 1]

\* C5: set at (r, c) with an anchored cell A stores a cell whose fragment is
\* a reference to A's coordinate and whose value is A's value; A is not
\* changed
C5_SetAnchoredStoresReference ==
    [][(/\ last'.op = "set"
        /\ last'.res = "ok"
        /\ last'.a # 0
        /\ heap[last'.a].row # None) =>
        LET A == heap[last'.a]
            r == PyIndex(Len(sheet), last'.x[1])
            c == PyIndex(Len(sheet[r]), last'.y[1])
            S == heap'[sheet'[r][c]]
        IN  /\ S.words = <<Tok("ref", A.row, A.column)>>
            /\ S.value = A.value
            /\ heap'[last'.a] = A]_vars

\* a set with an anchored cell that holds a number and a literal fragment
C5_Witness ==
    /\ last.op = "set"
    /\ last.res = "ok"
    /\ last.a # 0
    /\ heap[last.a].row # None
    /\ heap[last.a].value # None
    /\ heap[last.a].words = <<Tok("const", heap[last.a].value, None)>>

\* C6: set at (r, c) with a free cell F stores a copy of F anchored at
\* (r, c); F stays Free with the same value, kind and fragment, and the
\* stored cell is not the same object as F
C6_SetFreeStoresCopy ==
    [][(/\ last'.op = "set"
        /\ last'.res = "ok"
        /\ last'.a # 0
        /\ heap[last'.a].row = None) =>
        LET F == heap[last'.a]
            r == PyIndex(Len(sheet), last'.x[1])
            c == PyIndex(Len(sheet[r]), last'.y[1])
            S == heap'[sheet'[r][c]]
        IN  /\ sheet'[r][c] # last'.a
            /\ S.row = <<last'.x[1]>>
            /\ S.column = <<last'.y[1]>>
            /\ S.value = F.value
            /\ S.cell_type = F.cell_type
            /\ S.words = F.words
            /\ heap'[last'.a] = F
            /\ heap'[last'.a].row = None
            /\ heap'[last'.a].column = None]_vars

\* a set with a free Computational cell
C6_Witness ==
    /\ last.op = "set"
    /\ last.res = "ok"
    /\ last.a # 0
    /\ heap[last.a].row = None
    /\ heap[last.a].cell_type = "computational"
    /\ heap[last.ret].row # None

\* C7: a.add(b), a.subtract(b), a.multiply(b), a.divide(b) and a.power(b)
\* return a new Free Computational cell whose value is a + b, a - b, a * b,
\* a / b and a ** b of the operands' values; the operands are not changed
C7_ArithmeticNewFreeCell ==
    [][(last'.op \in Ops /\ last'.res = "ok") =>
        LET p == heap[last'.a].value
            q == heap[last'.b].value
            R == heap'[last'.ret]
            Is(n, d) == R.value[1] * d = n * R.value[2]
        IN  /\ last'.ret \notin Cells
            /\ CASE last'.op = "add" ->
                        Is(p[1] * q[2] + q[1] * p[2], p[2] * q[2])
                 [] last'.op = "subtract" ->
                        Is(p[1] * q[2] - q[1] * p[2], p[2] * q[2])
                 [] last'.op = "multiply" -> Is(p[1] * q[1], p[2] * q[2])
                 [] last'.op = "divide" -> Is(p[1] * q[2], p[2] * q[1])
                 [] last'.op = "power" ->
                        IF q[1] >= 0
                        THEN Is(IPow(p[1], q[1]), IPow(p[2], q[1]))
                        ELSE Is(IPow(p[2], -q[1]), IPow(p[1], -q[1]))
            /\ R.row = None
            /\ R.column = None
            /\ R.cell_type = "computational"
            /\ \A i \in Cells : heap'[i] = heap[i]]_vars

\* a division of an anchored cell by a different cell that gives a fraction
C7_Witness ==
    /\ last.op = "divide"
    /\ last.res = "ok"
    /\ last.a # last.b
    /\ heap[last.a].row # None
    /\ heap[last.ret].value[2] # 1

\* C8: Cell.reference(other) fails when other is not anchored and creates no
\* cell; when other is anchored it returns a Free Computational cell with
\* value other.value whose fragment is a reference to other's coordinate
C8_ReferenceNeedsAnchor ==
    [][last'.op = "reference" =>
        IF heap[last'.a].row = None
        THEN /\ last'.res = "ValueError"
             /\ last'.ret = 0
             /\ heap' = heap
        ELSE LET R == heap'[last'.ret]
             IN  /\ last'.res = "ok"
                 /\ last'.ret \notin Cells
                 /\ R.row = None
                 /\ R.column = None
                 /\ R.cell_type = "computational"
                 /\ R.value = heap[last'.a].value
                 /\ R.words = <<Tok("ref", heap[last'.a].row,
                                    heap[last'.a].column)>>]_vars

\* a reference to an anchored cell that holds a number
C8_Witness ==
    /\ last.op = "reference"
    /\ last.res = "ok"
    /\ heap[last.a].row # None
    /\ heap[last.a].value # None

\* C9: the position of a cell is all or nothing, row and column are both
\* set or both absent, and the constructor called with exactly one of row
\* and column fails
C9_PositionAllOrNothing ==
    /\ \A i \in Cells : (heap[i].row = None) <=> (heap[i].column = None)
    /\ last.op = "new" =>
            IF (last.x = None) # (last.y = None)
            THEN last.res = "ValueError" /\ last.ret = 0
            ELSE /\ last.res = "ok"
                 /\ heap[last.ret].row = last.x
                 /\ heap[last.ret].column = last.y

\* the constructor called with a row and no column
C9_Witness ==
    /\ last.op = "new"
    /\ last.x # None
    /\ last.y = None
    /\ last.res = "ValueError"

\* C10: the word of an anchored cell is a reference to its own coordinate,
\* whatever its kind; the word of a Free Computational cell is its full
\* expression; the word of a Free Value cell is its literal value
C10_WordByPositionAndKind ==
    \A i \in Cells :
        LET c == heap[i]
        IN  IF c.row # None
            THEN word(c) = <<Tok("ref", c.row, c.column)>>
            ELSE IF c.cell_type = "computational"
            THEN word(c) = c.words
            ELSE word(c) = <<Tok("const", c.value, None)>>

\* an anchored Computational cell whose expression is not its coordinate,
\* beside a Free Computational cell and a Free Value cell
C10_Witness ==
    /\ \E i \in Cells :
        /\ heap[i].row # None
        /\ heap[i].cell_type = "computational"
        /\ heap[i].words # <<Tok("ref", heap[i].row, heap[i].column)>>
    /\ \E i \in Cells :
        heap[i].row = None /\ heap[i].cell_type = "computational"
    /\ \E i \in Cells :
        heap[i].row = None /\ heap[i].cell_type = "value_only"

\* C11: Cell.brackets(other) returns a new cell whose value is other.value
\* and whose fragment is other's fragment inside exactly one pair of
\* brackets; brackets of that cell again keeps the value of other and wraps
\* other's fragment in exactly two pairs
C11_BracketsWrapOnce ==
    [][(last'.op = "brackets" /\ last'.res = "ok") =>
        LET O == heap[last'.a]
            R == heap'[last'.ret]
            open == <<Tok("(", None, None)>>
            close == <<Tok(")", None, None)>>
        IN  /\ last'.ret \notin Cells
            /\ R.value = O.value
            /\ R.words = open \o word(O) \o close
            /\ (last.op = "brackets" /\ last'.a = last.ret) =>
                    /\ R.value = heap[last.a].value
                    /\ R.words = open \o open \o word(heap[last.a])
                                    \o close \o close]_vars

\* brackets applied to the cell that the call before, brackets too, returned
C11_Witness ==
    /\ last.op = "brackets"
    /\ last.res = "ok"
    /\ heap[last.a].words[1].t = "("
    /\ heap[last.ret].words[2].t = "("
    /\ heap[last.ret].value # None

\* C12: sum, product, mean, min and max called with an empty subset fail
\* with an error and produce no cell
C12_EmptyAggregationFails ==
    [][(last'.op \in Methods /\ last'.a = 0) =>
        /\ last'.res \in {"IndexError", "ValueError"}
        /\ last'.ret = 0
        /\ heap' = heap]_vars

\* an aggregation called with the empty list
C12_Witness ==
    /\ last.op \in Methods
    /\ last.a = 0
    /\ last.res # "ok"

\* C13: for a non-empty subset, the value of sum(start, end, subset) is the
\* sum of the members' values for every ordering of the subset (2, 2, 89
\* give 93), and the fragment is an aggregation over the range (start, end)
\* that holds none of the members' values or fragments
C13_SumAnyOrder ==
    (last.op = "sum" /\ last.res = "ok" /\ last.val # None) =>
        LET ids == last.val
            n == Len(ids)
            R == heap[last.ret]
            Perms == {f \in [1..n -> 1..n] :
                        \A i \in 1..n, j \in 1..n : f[i] = f[j] => i = j}
        IN  /\ \A f \in Perms :
                AggregateValue("sum", [i \in 1..n |-> heap[ids[f[i]]].value])
                    = R.value
            /\ R.words = <<Tok("sum", None, None),
                           Tok("ref", <<last.x[1]>>, <<last.x[2]>>),
                           Tok("ref", <<last.y[1]>>, <<last.y[2]>>)>>
            /\ \A k \in 1..Len(R.words) : R.words[k].t # "const"

\* C13, amended: the same for a non-empty subset of whole numbers that add
\* up to less than 2 ** SignificandBits, so that no partial sum is rounded
C13_SumAnyOrderExact ==
    (/\ last.op = "sum"
     /\ last.res = "ok"
     /\ last.val # None
     /\ LET Mag(i) == IF i <= Len(last.val)
                      THEN Abs(heap[last.val[i]].value[1]) ELSE 0
        IN  Mag(1) + Mag(2) + Mag(3) < IPow(2, SignificandBits)) =>
        LET ids == last.val
            n == Len(ids)
            R == heap[last.ret]
            Val(i) == IF i <= n THEN heap[ids[i]].value[1] ELSE 0
            Perms == {f \in [1..n -> 1..n] :
                        \A i \in 1..n, j \in 1..n : f[i] = f[j] => i = j}
        IN  /\ R.value = <<Val(1) + Val(2) + Val(3), 1>>
            /\ \A f \in Perms :
                AggregateValue("sum", [i \in 1..n |-> heap[ids[f[i]]].value])
                    = R.value
            /\ R.words = <<Tok("sum", None, None),
                           Tok("ref", <<last.x[1]>>, <<last.x[2]>>),
                           Tok("ref", <<last.y[1]>>, <<last.y[2]>>)>>
            /\ \A k \in 1..Len(R.words) : R.words[k].t # "const"

\* the sum of three cells that hold 2, 2 and 89
C13_Witness ==
    /\ last.op = "sum"
    /\ last.res = "ok"
    /\ Len(last.val) = 3
    /\ \E i \in 1..3 : heap[last.val[i]].value = Num(89)
    /\ heap[last.ret].value = Num(93)

\* C14: deleting the cell at (r0, c0) changes the fragment and the value of
\* every other cell of the grid whose fragment references (r0, c0), and
\* leaves the value and the fragment of every cell that does not unchanged
C14_DeletePropagates ==
    [][(last'.op = "delete" /\ last'.ret # 0) =>
        LET r0 == PyIndex(Len(sheet), last'.x[1])
            c0 == PyIndex(Len(sheet[r0]), last'.y[1])
            Refers(cell) ==
                \E k \in 1..Len(cell.words) :
                    cell.words[k] = Tok("ref", <<r0 - 1>>, <<c0 - 1>>)
        IN  \A r \in 1..Len(sheet) : \A c \in 1..Len(sheet[r]) :
                <<r, c>> # <<r0, c0>> =>
                    IF Refers(heap[sheet[r][c]])
                    THEN heap'[sheet'[r][c]].words # heap[sheet[r][c]].words
                    ELSE /\ heap'[sheet'[r][c]].words = heap[sheet[r][c]].words
                         /\ heap'[sheet'[r][c]].value
                                = heap[sheet[r][c]].value]_vars

\* C15: after the cell at (r, c) is deleted, slot (r, c) holds a fresh empty
\* Value cell: anchored at (r, c), of kind Value, with no value and with no
\* computed expression or reference left in it
C15_DeleteLeavesEmptyCell ==
    (last.op = "delete" /\ last.ret # 0) =>
        LET r == PyIndex(Len(sheet), last.x[1])
            c == PyIndex(Len(sheet[r]), last.y[1])
            S == heap[sheet[r][c]]
        IN  /\ S.row = <<r - 1>>
            /\ S.column = <<c - 1>>
            /\ S.cell_type = "value_only"
            /\ S.value = None

\* C16: a slice over a row range and a column range holds exactly the cells
\* at the cross product of the ranges, in row-major order, as they were when
\* it was taken; a later set on a member's coordinate replaces the slot of
\* the grid and not the members of the slice, whose sum keeps using the
\* values captured
C16_SliceIsSnapshot ==
    [][/\ (last'.op = "slice" /\ last'.res = "ok") =>
            LET xs == last'.x[1]
                xe == last'.x[2]
                ys == last'.y[1]
                ye == last'.y[2]
                S == slices'[Len(slices')]
            IN  /\ Len(slices') = Len(slices) + 1
                /\ S.start = <<xs, ys>>
                /\ S.end = <<xe - 1, ye - 1>>
                /\ Len(S.cell_subset) =
                        Cardinality((xs..(xe - 1)) \X (ys..(ye - 1)))
                /\ \A x \in xs..(xe - 1) : \A y \in ys..(ye - 1) :
                        S.cell_subset[(x - xs) * (ye - ys) + (y - ys) + 1]
                            = sheet[x + 1][y + 1]
       /\ \A k \in 1..Len(slices) :
            /\ slices'[k] = slices[k]
            /\ \A i \in 1..Len(slices[k].cell_subset) :
                    heap'[slices[k].cell_subset[i]].value
                        = heap[slices[k].cell_subset[i]].value
       /\ (last'.op = "set" /\ last'.res = "ok") =>
            sheet'[PyIndex(Len(sheet), last'.x[1])]
                  [PyIndex(Len(sheet[PyIndex(Len(sheet), last'.x[1])]),
                           last'.y[1])] \notin Cells
       /\ (last'.op = "slice_sum" /\ last'.res = "ok") =>
            LET ids == slices[last'.a].cell_subset
                Val(i) == IF i <= Len(ids) THEN heap[ids[i]].value[1] ELSE 0
            IN  heap'[last'.ret].value
                    = <<Val(1) + Val(2) + Val(3) + Val(4), 1>>]_vars

\* the sum of a slice after a set replaced the slot of one of its members
\* with a cell that holds another number
C16_Witness ==
    /\ last.op = "slice_sum"
    /\ last.res = "ok"
    /\ Len(last.val) = 2
    /\ \E i \in 1..Len(last.val) :
        LET m == heap[last.val[i]]
            now == heap[sheet[m.row[1] + 1][m.column[1] + 1]]
        IN  /\ sheet[m.row[1] + 1][m.column[1] + 1] # last.val[i]
            /\ now.value # m.value
    /\ heap[last.ret].value =
            RAdd(heap[last.val[1]].value, heap[last.val[2]].value)

\* C17: delete_row, insert_row_before, insert_row_after,
\* insert_column_before and insert_column_after fail at once when both the
\* index selector and the label selector are given, and delete_row fails
\* when its row index is outside 0 <= row_index < rows; every such failing
\* call leaves the shape and all the cells of the grid unchanged
C17_ConflictingSelectorsFail ==
    [][(/\ last'.op \in RowOps
        /\ \/ last'.x # None /\ last'.y # None
           \/ /\ last'.op = "delete_row"
              /\ last'.x # None
              /\ last'.y = None
              /\ ~(0 <= last'.x[1] /\ last'.x[1] < shape[1])) =>
        /\ IF last'.x # None /\ last'.y # None
           THEN last'.res = IF last'.op = "delete_row"
                            THEN "AttributeError" ELSE "IndexError"
           ELSE last'.res = "IndexError"
        /\ last'.ret = 0
        /\ heap' = heap
        /\ sheet' = sheet
        /\ ci_heap' = ci_heap
        /\ cell_indices' = cell_indices
        /\ shape' = shape]_vars

\* delete_row called with a row index and a row label on a grid in which a
\* number was set
C17_Witness ==
    /\ last.op = "delete_row"
    /\ last.x # None
    /\ last.y # None
    /\ last.res = "AttributeError"
    /\ \E r \in 1..Len(sheet) : \E c \in 1..Len(sheet[r]) :
            heap[sheet[r][c]].value # None

\* C18: Cell.exponential(other) returns a cell whose fragment wraps other's
\* fragment in the exponential function call, which is not the fragment
\* Cell.logarithm(other) builds; Cell.logarithm(other) wraps it in the
\* logarithm function call
C18_ExponentialOwnFragment ==
    /\ (last.op = "exponential" /\ last.res = "ok") =>
            /\ heap[last.ret].words =
                    <<Tok("exp", None, None), Tok("(", None, None)>>
                        \o word(heap[last.a]) \o <<Tok(")", None, None)>>
            /\ heap[last.ret].words # LogarithmResult(heap[last.a]).words
    /\ (last.op = "logarithm" /\ last.res = "ok") =>
            heap[last.ret].words =
                <<Tok("log", None, None), Tok("(", None, None)>>
                    \o word(heap[last.a]) \o <<Tok(")", None, None)>>

\* C19: delete_row called with only a row index i, 0 <= i < rows, completes
\* without raising and deletes every cell (i, c) of the row
C19_DeleteRowCompletes ==
    (/\ last.op = "delete_row"
     /\ last.x # None
     /\ last.y = None
     /\ 0 <= last.x[1]
     /\ last.x[1] < shape[1]) =>
        /\ last.res = "ok"
        /\ \A c \in 1..shape[2] :
                heap[sheet[last.x[1] + 1][c]].value = None

====
